---- MODULE Spec2Model ----
(***************************************************************************)
(* Model of pywinauto/findwindows.py: the criteria filtering pipelines     *)
(* find_elements (UIA element infos) and find_windows (native handles),    *)
(* and the single-result resolver find_window.                             *)
(*                                                                         *)
(* An element is identified by a positive integer; the desktop root is 0.  *)
(* An optional Python value is <<>> for None and <<v>> for the value v.    *)
(* A Python string is a sequence of one-character strings.                 *)
(* A regular expression is modelled by the two forms the criteria use:     *)
(* a literal (re.match succeeds when the literal is a prefix of the        *)
(* subject) and a literal followed by '$' (the subject equals the literal).*)
(***************************************************************************)
EXTENDS Integers, Sequences, FiniteSets, TLC

\* Number of UI elements below the desktop root.
NumElems == 4

None == <<>>
Some(v) == <<v>>

Elems == 1..NumElems

-----------------------------------------------------------------------------
(* Python sequence semantics *)

\* seq[i] of a Python list: negative indices count from the end,
\* anything outside -n..n-1 raises IndexError.
InRange(seq, i) == (i >= 0 /\ i < Len(seq)) \/ (i < 0 /\ i >= 0 - Len(seq))

PyIndex_clamped(seq, i) ==
    IF i >= Len(seq) THEN seq[Len(seq)]
    ELSE IF i >= 0 THEN seq[i + 1]
    ELSE seq[Len(seq) + i + 1]

PyIndex(seq, i) == IF i >= 0 THEN seq[i + 1] ELSE seq[Len(seq) + i + 1]

\* Normalisation of a slice bound of a Python list of length n.
SliceBound(k, n) ==
    IF k < 0 THEN (IF k + n < 0 THEN 0 ELSE k + n)
    ELSE (IF k > n THEN n ELSE k)

\* seq[lo:hi] of a Python list.
PySlice(seq, lo, hi) ==
    SubSeq(seq, SliceBound(lo, Len(seq)) + 1, SliceBound(hi, Len(seq)))

\* "x in seq" of a Python list.
PyIn(x, seq) == \E k \in 1..Len(seq) : seq[k] = x

Reverse(seq) == [k \in 1..Len(seq) |-> seq[Len(seq) + 1 - k]]

IsPrefix(p, s) == Len(p) <= Len(s) /\ SubSeq(s, 1, Len(p)) = p

\* regex.match(s) of a compiled pattern: anchored at the start of s only.
ReMatch(regex, s) ==
    IsPrefix(regex.lit, s) /\ (regex.end => Len(s) = Len(regex.lit))

-----------------------------------------------------------------------------
(* The native UI: properties of the elements, read through handleprops     *)
(* and the element info objects.                                           *)

ParentOf(e) == e \div 2

RECURSIVE HasAncestor(_, _)
HasAncestor(e, p) ==
    IF e = 0 THEN FALSE
    ELSE IF ParentOf(e) = p THEN TRUE
    ELSE HasAncestor(ParentOf(e), p)

ClassNameOf(e) ==
    CASE e % 3 = 1 -> <<"B", "t">>
      [] e % 3 = 2 -> <<"B">>
      [] OTHER     -> <<"E", "B">>

\* The display text; None when it cannot be read.
WindowTextOf(e) ==
    CASE e % 4 = 1 -> Some(<<"o", "k">>)
      [] e % 4 = 2 -> Some(<<"o">>)
      [] e % 4 = 3 -> None
      [] OTHER     -> Some(<<"x">>)

ProcessIdOf(e) == 1 + (e % 2)

IsVisible(e) == e % 4 # 2

IsEnabled(e) == e % 3 # 0

ControlIdOf(e) == e % 2

\* The native window handle of a UIA element; 0 when it has none.
HandleOf(e) == IF e % 4 = 0 THEN 0 ELSE e

\* All elements of the tree, handles of native windows only.
RECURSIVE Upto(_)
Upto(n) == IF n = 0 THEN <<>> ELSE Append(Upto(n - 1), n)

AllElems == Upto(NumElems)

NativeWindows == SelectSeq(AllElems, LAMBDA e : HandleOf(e) # 0)

\* parent.descendants of a UIAElementInfo (0 is the desktop root).
Descendants(p) == SelectSeq(AllElems, LAMBDA e : HasAncestor(e, p))

\* handleprops.children(parent): the descendant native windows.
Children(p) == SelectSeq(NativeWindows, LAMBDA e : HasAncestor(e, p))

\* Element info objects compare by the element they stand for.
UIAElementInfo(h) == h

NativeElementInfo(h) == h

-----------------------------------------------------------------------------
(* Outcomes of a call: a returned list, a returned element, or a raised   *)
(* exception with its arguments.                                           *)

Return(elems) == [kind |-> "return", elems |-> elems, args |-> <<>>]

ReturnElement(e) == [kind |-> "element", elems |-> <<e>>, args |-> <<>>]

Raise(kind, elems, args) == [kind |-> kind, elems |-> elems, args |-> args]

-----------------------------------------------------------------------------
(* The steps of the pipelines *)

\* "if handle is not None"
HandleGiven_truthy(handle) == handle # None /\ handle[1] # 0

HandleGiven(handle) == handle # None

\* "if parent:" / "if not parent:" on an optional int or element
Truthy(parent) == parent # None /\ parent[1] # 0

\* Top level mode of find_elements: enum_elements(), restricted to the
\* children of parent when one is given.
TopLevelElements(wins, parent) ==
    LET elements == [k \in 1..Len(wins) |-> UIAElementInfo(wins[k])]
    IN  IF Truthy(parent)
        THEN SelectSeq(elements, LAMBDA e : ParentOf(e) = UIAElementInfo(parent[1]))
        ELSE elements

\* Top level mode of find_windows: enum_windows(), restricted likewise.
TopLevelWindows(wins, parent) ==
    IF Truthy(parent)
    THEN SelectSeq(wins, LAMBDA w : ParentOf(w) = parent[1])
    ELSE wins

\* Descendant mode of find_elements: parent.descendants, the desktop's
\* when no parent is given.
DescendantElements(parent) ==
    IF Truthy(parent) THEN Descendants(UIAElementInfo(parent[1]))
    ELSE Descendants(UIAElementInfo(0))

\* Descendant mode of find_windows: handleprops.children(parent).
DescendantWindows(parent) ==
    IF Truthy(parent) THEN Children(parent[1]) ELSE Children(0)

\* "return [elements[ctrl_index], ]"
CtrlIndexLookup_clamped(elements, ctrl_index) ==
    IF elements = <<>> \/ ctrl_index < 0 - Len(elements)
    THEN Raise("IndexError", <<>>, <<>>)
    ELSE Return(<<PyIndex_clamped(elements, ctrl_index)>>)

CtrlIndexLookup(elements, ctrl_index) ==
    IF InRange(elements, ctrl_index)
    THEN Return(<<PyIndex(elements, ctrl_index)>>)
    ELSE Raise("IndexError", <<>>, <<>>)

\* "if control_id is not None and elements:"
ControlIdStep(elements, control_id) ==
    IF control_id # None /\ elements # <<>>
    THEN SelectSeq(elements, LAMBDA e : ControlIdOf(e) = control_id[1])
    ELSE elements

\* The loop over the elements looking for gui_info.hwndActive.
FirstActive(elements, hwndActive) ==
    LET hits == SelectSeq(elements, LAMBDA e : HandleOf(e) = hwndActive)
    IN  IF hits = <<>> THEN <<>> ELSE <<hits[1]>>

ActiveElements_unchecked(elements, hwndActive) == <<UIAElementInfo(hwndActive)>>

ActiveElements(elements, hwndActive) == FirstActive(elements, hwndActive)

ActiveWindows_keep(windows, hwndActive) ==
    IF PyIn(hwndActive, windows) THEN <<hwndActive>> ELSE windows

\* "if gui_info.hwndActive in windows:"
ActiveWindows(windows, hwndActive) ==
    IF PyIn(hwndActive, windows) THEN <<hwndActive>> ELSE <<>>

ClassStep_else(elements, class_name, class_name_re) ==
    IF class_name # None
    THEN SelectSeq(elements, LAMBDA e : ClassNameOf(e) = class_name[1])
    ELSE IF class_name_re # None
    THEN SelectSeq(elements, LAMBDA e : ReMatch(class_name_re[1], ClassNameOf(e)))
    ELSE elements

\* class_name, then class_name_re: two independent "if" statements.
ClassStep(elements, class_name, class_name_re) ==
    LET byName == IF class_name # None
                  THEN SelectSeq(elements, LAMBDA e : ClassNameOf(e) = class_name[1])
                  ELSE elements
    IN  IF class_name_re # None
        THEN SelectSeq(byName, LAMBDA e : ReMatch(class_name_re[1], ClassNameOf(e)))
        ELSE byName

ProcessStep(elements, process) ==
    IF process # None
    THEN SelectSeq(elements, LAMBDA e : ProcessIdOf(e) = process[1])
    ELSE elements

\* _title_match(w): False when the text is None.
TitleMatch(title_regex, e) ==
    LET t == WindowTextOf(e)
    IN  IF t # None THEN ReMatch(title_regex, t[1]) ELSE FALSE

TitleStep_both(elements, title, title_re) ==
    LET byTitle == IF title # None
                   THEN SelectSeq(elements, LAMBDA e : WindowTextOf(e) = title)
                   ELSE elements
    IN  IF title_re # None
        THEN SelectSeq(byTitle, LAMBDA e : TitleMatch(title_re[1], e))
        ELSE byTitle

\* title, "elif" title_re.
TitleStep(elements, title, title_re) ==
    IF title # None
    THEN SelectSeq(elements, LAMBDA e : WindowTextOf(e) = title)
    ELSE IF title_re # None
    THEN SelectSeq(elements, LAMBDA e : TitleMatch(title_re[1], e))
    ELSE elements

VisibleStep(elements, visible_only) ==
    IF visible_only THEN SelectSeq(elements, IsVisible) ELSE elements

EnabledStep(elements, enabled_only) ==
    IF enabled_only THEN SelectSeq(elements, IsEnabled) ELSE elements

\* findbestmatch.find_best_control_matches: the candidates whose text is
\* similar to the target, in rank order.
FindBestControlMatches(target, wrapped) ==
    Reverse(SelectSeq(wrapped,
        LAMBDA e : WindowTextOf(e) # None /\ IsPrefix(target, WindowTextOf(e)[1])))

\* best_match in find_elements: elements with a handle that can still be
\* wrapped are matched, and the matches converted back by their handle.
BestMatchElements(elements, best_match, stale) ==
    IF best_match # None
    THEN LET wrapped_elems ==
                 SelectSeq(elements, LAMBDA e : HandleOf(e) # 0 /\ e \notin stale)
             matched == FindBestControlMatches(best_match[1], wrapped_elems)
         IN  [k \in 1..Len(matched) |-> UIAElementInfo(HandleOf(matched[k]))]
    ELSE elements

\* best_match in find_windows: handles that can still be wrapped.
BestMatchWindows(windows, best_match, stale) ==
    IF best_match # None
    THEN LET wrapped_wins == SelectSeq(windows, LAMBDA w : w \notin stale)
         IN  FindBestControlMatches(best_match[1], wrapped_wins)
    ELSE windows

\* The caller's predicates.
PredicateHolds(name, e) == name = "odd" /\ e % 2 = 1

PredicateStep(elements, predicate_func) ==
    IF predicate_func # None
    THEN SelectSeq(elements, LAMBDA e : PredicateHolds(predicate_func[1], e))
    ELSE elements

FoundIndexStep_index(elements, found_index) ==
    IF found_index # None
    THEN IF InRange(elements, found_index[1])
         THEN Return(<<PyIndex(elements, found_index[1])>>)
         ELSE Raise("IndexError", <<>>, <<>>)
    ELSE Return(elements)

\* found_index, the last criterion.
FoundIndexStep(elements, found_index) ==
    IF found_index # None
    THEN IF found_index[1] < Len(elements)
         THEN Return(PySlice(elements, found_index[1], found_index[1] + 1))
         ELSE Raise("WindowNotFoundError", <<>>, <<found_index[1], Len(elements)>>)
    ELSE Return(elements)

-----------------------------------------------------------------------------
(* The pipelines *)

\* Steps 3 to 10: the criteria applied after the early stop.  uia selects
\* the best_match step of find_elements or the one of find_windows.
FilterSteps(elements, c, stale, uia) ==
    LET byClass   == ClassStep(elements, c.class_name, c.class_name_re)
        byProcess == ProcessStep(byClass, c.process)
        byTitle   == TitleStep(byProcess, c.title, c.title_re)
        byVisible == VisibleStep(byTitle, c.visible_only)
        byEnabled == EnabledStep(byVisible, c.enabled_only)
        byBest    == IF uia THEN BestMatchElements(byEnabled, c.best_match, stale)
                     ELSE BestMatchWindows(byEnabled, c.best_match, stale)
        byPred    == PredicateStep(byBest, c.predicate_func)
    IN  FoundIndexStep(byPred, c.found_index)

\* find_elements up to the early stop: the short circuits, the population,
\* control_id and active_only.  done: the call has ended with out.
\* enums, queries: the populations enumerated, the GetGUIThreadInfo calls.
AcquireElements(c, wins, gti) ==
    IF HandleGiven(c.handle)
    THEN [done |-> TRUE, out |-> Return(<<UIAElementInfo(c.handle[1])>>),
          elements |-> <<>>, enums |-> 0, queries |-> 0]
    ELSE IF ~c.top_level_only /\ c.ctrl_index # None
    THEN [done |-> TRUE,
          out |-> CtrlIndexLookup(DescendantElements(c.parent), c.ctrl_index[1]),
          elements |-> <<>>, enums |-> 1, queries |-> 0]
    ELSE LET population == IF c.top_level_only
                           THEN TopLevelElements(wins, c.parent)
                           ELSE DescendantElements(c.parent)
             byId == ControlIdStep(population, c.control_id)
         IN  IF ~c.active_only
             THEN [done |-> FALSE, out |-> Return(<<>>), elements |-> byId,
                   enums |-> 1, queries |-> 0]
             ELSE IF ~gti.ret
             THEN [done |-> TRUE, out |-> Raise("WinError", <<>>, <<>>),
                   elements |-> <<>>, enums |-> 1, queries |-> 1]
             ELSE [done |-> FALSE, out |-> Return(<<>>),
                   elements |-> ActiveElements(byId, gti.hwndActive),
                   enums |-> 1, queries |-> 1]

find_elements(c, wins, gti, stale) ==
    LET a == AcquireElements(c, wins, gti)
        out == IF a.done THEN a.out
               ELSE IF a.elements = <<>> THEN Return(a.elements)
               ELSE FilterSteps(a.elements, c, stale, TRUE)
    IN  [out |-> out, enums |-> a.enums, queries |-> a.queries]

\* find_windows up to the early stop.
AcquireWindows(c, wins, gti) ==
    IF HandleGiven(c.handle)
    THEN [done |-> TRUE, out |-> Return(<<NativeElementInfo(c.handle[1])>>),
          elements |-> <<>>, enums |-> 0, queries |-> 0]
    ELSE IF ~c.top_level_only /\ c.ctrl_index # None
    THEN LET looked == CtrlIndexLookup(DescendantWindows(c.parent), c.ctrl_index[1])
         IN  [done |-> TRUE,
              out |-> IF looked.kind = "return"
                      THEN Return(<<NativeElementInfo(looked.elems[1])>>)
                      ELSE looked,
              elements |-> <<>>, enums |-> 1, queries |-> 0]
    ELSE LET population == IF c.top_level_only
                           THEN TopLevelWindows(wins, c.parent)
                           ELSE DescendantWindows(c.parent)
             byId == ControlIdStep(population, c.control_id)
         IN  IF ~c.active_only
             THEN [done |-> FALSE, out |-> Return(<<>>), elements |-> byId,
                   enums |-> 1, queries |-> 0]
             ELSE IF ~gti.ret
             THEN [done |-> TRUE, out |-> Raise("WinError", <<>>, <<>>),
                   elements |-> <<>>, enums |-> 1, queries |-> 1]
             ELSE [done |-> FALSE, out |-> Return(<<>>),
                   elements |-> ActiveWindows(byId, gti.hwndActive),
                   enums |-> 1, queries |-> 1]

\* The last statement of find_windows: handles back to element infos.
WrapResult(out) ==
    IF out.kind = "return"
    THEN Return([k \in 1..Len(out.elems) |-> NativeElementInfo(out.elems[k])])
    ELSE out

find_windows(c, wins, gti, stale) ==
    LET a == AcquireWindows(c, wins, gti)
        out == IF a.done THEN a.out
               ELSE IF a.elements = <<>> THEN Return(a.elements)
               ELSE WrapResult(FilterSteps(a.elements, c, stale, FALSE))
    IN  [out |-> out, enums |-> a.enums, queries |-> a.queries]

Resolve_three(windows) ==
    IF windows = <<>> THEN Raise("WindowNotFoundError", <<>>, <<>>)
    ELSE IF Len(windows) > 2
    THEN Raise("WindowAmbiguousError", windows, <<Len(windows)>>)
    ELSE ReturnElement(windows[1])

\* find_window after the pipeline has returned windows.
Resolve(windows) ==
    IF windows = <<>> THEN Raise("WindowNotFoundError", <<>>, <<>>)
    ELSE IF Len(windows) > 1
    THEN Raise("WindowAmbiguousError", windows, <<Len(windows)>>)
    ELSE ReturnElement(windows[1])

\* find_window: the pipeline chosen by sysinfo.UIA_support, then Resolve;
\* an exception of the pipeline propagates.
find_window(c, wins, gti, stale, uia) ==
    LET p == IF uia THEN find_elements(c, wins, gti, stale)
             ELSE find_windows(c, wins, gti, stale)
    IN  [piped |-> p.out,
         out |-> IF p.out.kind = "return" THEN Resolve(p.out.elems) ELSE p.out,
         enums |-> p.enums, queries |-> p.queries]

-----------------------------------------------------------------------------
(* The inputs of a call *)

ClassNames == {None, Some(<<"B", "t">>)}

ClassNameRes == {None, Some([lit |-> <<"B">>, end |-> FALSE]),
                 Some([lit |-> <<"B">>, end |-> TRUE])}

Titles == {None, Some(<<"o">>)}

TitleRes == {None, Some([lit |-> <<"o", "k">>, end |-> FALSE])}

Parents == {None, Some(0), Some(1), Some(2)}

Processes == {None, Some(2)}

BestMatches == {None, Some(<<"o">>)}

Handles == {None, Some(0), Some(1), Some(NumElems + 2)}

CtrlIndexes == {None, Some(0 - NumElems - 1), Some(-1), Some(0), Some(1),
                Some(NumElems + 1)}

FoundIndexes == {None, Some(-1), Some(0), Some(1), Some(NumElems + 1)}

Predicates == {None, Some("odd")}

ControlIds == {None, Some(0)}

\* The defaults of the keyword arguments.
DefaultCriteria ==
    [class_name |-> None, class_name_re |-> None, parent |-> None,
     process |-> None, title |-> None, title_re |-> None,
     top_level_only |-> TRUE, visible_only |-> TRUE, enabled_only |-> FALSE,
     best_match |-> None, handle |-> None, ctrl_index |-> None,
     found_index |-> None, predicate_func |-> None, active_only |-> FALSE,
     control_id |-> None]

\* Calls that vary the short circuits together with criteria they bypass.
ShortCircuitCriteria ==
    [class_name : {None}, class_name_re : {None}, parent : Parents,
     process : {None}, title : Titles, title_re : {None},
     top_level_only : BOOLEAN, visible_only : BOOLEAN, enabled_only : {FALSE},
     best_match : {None}, handle : Handles, ctrl_index : CtrlIndexes,
     found_index : {None, Some(0), Some(NumElems + 1)},
     predicate_func : Predicates, active_only : BOOLEAN, control_id : {None}]

\* Calls that vary the text and class criteria of the pipeline.
TextCriteria ==
    [class_name : ClassNames, class_name_re : ClassNameRes, parent : {None},
     process : {None}, title : Titles, title_re : TitleRes,
     top_level_only : BOOLEAN, visible_only : BOOLEAN, enabled_only : {FALSE},
     best_match : {None}, handle : {None}, ctrl_index : {None},
     found_index : FoundIndexes, predicate_func : {None},
     active_only : BOOLEAN, control_id : ControlIds]

\* Calls that vary the remaining criteria of the pipeline.
PropertyCriteria ==
    [class_name : {None}, class_name_re : {None}, parent : {None, Some(1)},
     process : Processes, title : Titles, title_re : TitleRes,
     top_level_only : BOOLEAN, visible_only : BOOLEAN, enabled_only : BOOLEAN,
     best_match : BestMatches, handle : {None}, ctrl_index : {None},
     found_index : FoundIndexes, predicate_func : Predicates,
     active_only : BOOLEAN, control_id : {None}]

CriteriaInputs == ShortCircuitCriteria \cup TextCriteria \cup PropertyCriteria

\* What GetGUIThreadInfo answers: ret = 0 on failure, else the active window.
NoGuiThreadInfo == [ret |-> TRUE, hwndActive |-> 0]

GuiThreadInfos ==
    {[ret |-> FALSE, hwndActive |-> 0]} \cup
    {[ret |-> TRUE, hwndActive |-> h] : h \in {1, 2}}

\* The windows that vanish between enumeration and wrapping.
StaleSets == {{}, {1}}

\* What enum_windows() can answer.
EnumWindowsResults == {SubSeq(NativeWindows, 1, k) : k \in 0..Len(NativeWindows)}

-----------------------------------------------------------------------------
(* The state machine: one call at a time against the native UI *)

VARIABLES
    windows,      \* what enum_windows() returns
    UIA_support,  \* sysinfo.UIA_support
    pc,           \* "idle" or "done"
    fn,           \* the entry point called
    crit,         \* its keyword arguments
    gui,          \* the answer of GetGUIThreadInfo during the call
    stale,        \* the windows that vanished during the call
    piped,        \* find_window: the outcome of the pipeline it called
    result,       \* the outcome of the call
    enums,        \* populations enumerated by the call
    queries       \* GetGUIThreadInfo calls made by the call

vars == <<windows, UIA_support, pc, fn, crit, gui, stale, piped, result,
          enums, queries>>

Init ==
    /\ windows \in EnumWindowsResults
    /\ UIA_support \in BOOLEAN
    /\ pc = "idle"
    /\ fn = "none"
    /\ crit = DefaultCriteria
    /\ gui = NoGuiThreadInfo
    /\ stale = {}
    /\ piped = Return(<<>>)
    /\ result = Return(<<>>)
    /\ enums = 0
    /\ queries = 0

\* The environment's part of a call: the answers are drawn only for the
\* questions the criteria can ask.
Environment(c, gti, st) ==
    /\ gti \in (IF c.active_only THEN GuiThreadInfos ELSE {NoGuiThreadInfo})
    /\ st \in (IF c.best_match # None THEN StaleSets ELSE {{}})

CallFindElements ==
    /\ pc = "idle"
    /\ \E c \in CriteriaInputs, gti \in GuiThreadInfos \cup {NoGuiThreadInfo},
          st \in StaleSets :
          /\ Environment(c, gti, st)
          /\ LET r == find_elements(c, windows, gti, st)
             IN  /\ result' = r.out
                 /\ piped' = r.out
                 /\ enums' = r.enums
                 /\ queries' = r.queries
          /\ crit' = c
          /\ gui' = gti
          /\ stale' = st
    /\ fn' = "find_elements"
    /\ pc' = "done"
    /\ UNCHANGED <<windows, UIA_support>>

CallFindWindows ==
    /\ pc = "idle"
    /\ \E c \in CriteriaInputs, gti \in GuiThreadInfos \cup {NoGuiThreadInfo},
          st \in StaleSets :
          /\ Environment(c, gti, st)
          /\ LET r == find_windows(c, windows, gti, st)
             IN  /\ result' = r.out
                 /\ piped' = r.out
                 /\ enums' = r.enums
                 /\ queries' = r.queries
          /\ crit' = c
          /\ gui' = gti
          /\ stale' = st
    /\ fn' = "find_windows"
    /\ pc' = "done"
    /\ UNCHANGED <<windows, UIA_support>>

CallFindWindow ==
    /\ pc = "idle"
    /\ \E c \in CriteriaInputs, gti \in GuiThreadInfos \cup {NoGuiThreadInfo},
          st \in StaleSets :
          /\ Environment(c, gti, st)
          /\ LET r == find_window(c, windows, gti, st, UIA_support)
             IN  /\ result' = r.out
                 /\ piped' = r.piped
                 /\ enums' = r.enums
                 /\ queries' = r.queries
          /\ crit' = c
          /\ gui' = gti
          /\ stale' = st
    /\ fn' = "find_window"
    /\ pc' = "done"
    /\ UNCHANGED <<windows, UIA_support>>

\* The caller takes the outcome; nothing is kept between calls.
Finish ==
    /\ pc = "done"
    /\ pc' = "idle"
    /\ fn' = "none"
    /\ crit' = DefaultCriteria
    /\ gui' = NoGuiThreadInfo
    /\ stale' = {}
    /\ piped' = Return(<<>>)
    /\ result' = Return(<<>>)
    /\ enums' = 0
    /\ queries' = 0
    /\ UNCHANGED <<windows, UIA_support>>

Next == CallFindElements \/ CallFindWindows \/ CallFindWindow \/ Finish

Spec == Init /\ [][Next]_vars

-----------------------------------------------------------------------------
(* Properties *)

PipelineDone == pc = "done" /\ fn \in {"find_elements", "find_windows"}

\* The call ended in the handle or the ctrl_index short circuit.
ShortCircuited ==
    crit.handle # None \/ (~crit.top_level_only /\ crit.ctrl_index # None)

\* The pipeline of the finished call, run again with criteria c.
Rerun(c) ==
    IF fn = "find_elements" THEN find_elements(c, windows, gui, stale).out
    ELSE find_windows(c, windows, gui, stale).out

\* The descendant list the finished call indexes with ctrl_index.
DescendantList ==
    IF fn = "find_elements" THEN DescendantElements(crit.parent)
    ELSE DescendantWindows(crit.parent)

\* The population the finished call draws from, by acquisition mode.
InitialPopulation ==
    IF crit.top_level_only THEN {windows[k] : k \in 1..Len(windows)}
    ELSE {DescendantList[k] : k \in 1..Len(DescendantList)}

\* The population of the finished call after the control_id step.
AfterControlId ==
    LET population ==
            IF crit.top_level_only
            THEN SelectSeq(windows,
                     LAMBDA e : Truthy(crit.parent) => ParentOf(e) = crit.parent[1])
            ELSE DescendantList
    IN  SelectSeq(population,
            LAMBDA e : crit.control_id # None => ControlIdOf(e) = crit.control_id[1])

\* The finished call up to the early stop.
Acquired ==
    IF fn = "find_elements" THEN AcquireElements(crit, windows, gui)
    ELSE AcquireWindows(crit, windows, gui)

\* Steps 3 to 10 of the finished call applied to a population.
Steps3To10(elements) ==
    IF fn = "find_elements" THEN FilterSteps(elements, crit, stale, TRUE)
    ELSE WrapResult(FilterSteps(elements, crit, stale, FALSE))

\* C1: when the pipeline find_window calls returns a list, find_window
\* raises WindowNotFoundError if the list is empty, raises
\* WindowAmbiguousError carrying the whole list if it has two or more
\* elements, and returns the element if it has exactly one.
C1_ResolverOutcomes ==
    (pc = "done" /\ fn = "find_window" /\ piped.kind = "return") =>
        /\ Len(piped.elems) = 0 =>
               result.kind = "WindowNotFoundError" /\ result.args = <<>>
        /\ Len(piped.elems) >= 2 =>
               result.kind = "WindowAmbiguousError" /\ result.elems = piped.elems
        /\ Len(piped.elems) = 1 =>
               result.kind = "element" /\ result.elems = <<piped.elems[1]>>

C1_Witness ==
    /\ pc = "done" /\ fn = "find_window"
    /\ result.kind = "WindowAmbiguousError"
    /\ Len(result.elems) >= 2
    /\ crit.found_index = None

\* C2: with a handle h, find_elements and find_windows return exactly
\* [Element(h)] whatever the other criteria, the population and the active
\* window are, without enumerating a population or asking for the active
\* window, and without raising.
C2_HandleShortCircuit ==
    (PipelineDone /\ crit.handle # None) =>
        /\ result.kind = "return"
        /\ result.elems = <<crit.handle[1]>>
        /\ enums = 0
        /\ queries = 0

C2_Witness ==
    /\ PipelineDone
    /\ crit.handle = Some(NumElems + 2)
    /\ ~crit.top_level_only
    /\ crit.ctrl_index = Some(NumElems + 1)
    /\ crit.active_only /\ ~gui.ret
    /\ result.elems = <<NumElems + 2>>

\* C3: with found_index given and no short circuit, the pipeline either
\* returns exactly one element or raises WindowNotFoundError carrying the
\* requested index and the count, whatever the size of the filtered
\* sequence; it never returns an empty list (a failed active window query
\* aside).
C3_FoundIndexOneOrNotFound ==
    (PipelineDone /\ ~ShortCircuited /\ crit.found_index # None
       /\ result.kind # "WinError") =>
        \/ result.kind = "return" /\ Len(result.elems) = 1
        \/ /\ result.kind = "WindowNotFoundError"
           /\ Len(result.args) = 2
           /\ result.args[1] = crit.found_index[1]

\* C4 as stated: every element find_elements returns is a member of the
\* initial population of the acquisition mode, for all criteria.
C4_ResultInPopulation ==
    (pc = "done" /\ fn = "find_elements" /\ result.kind = "return") =>
        \A k \in 1..Len(result.elems) : result.elems[k] \in InitialPopulation

\* C4 amended: when no handle is given, every element find_elements
\* returns is a member of the initial population of the acquisition mode.
C4_ResultInPopulationNoHandle ==
    (pc = "done" /\ fn = "find_elements" /\ result.kind = "return"
       /\ crit.handle = None) =>
        \A k \in 1..Len(result.elems) : result.elems[k] \in InitialPopulation

C4_Witness ==
    /\ pc = "done" /\ fn = "find_elements"
    /\ crit.handle = None
    /\ crit.best_match # None
    /\ result.kind = "return"
    /\ Len(result.elems) >= 2
    /\ \A k \in 1..Len(result.elems) : result.elems[k] \in InitialPopulation

\* C5 as stated: find_elements ends by returning a list, by a ctrl_index
\* range violation or by a found_index range violation, and in no other
\* way, whatever the active window query answers.
C5_OnlyRangeFailures ==
    (pc = "done" /\ fn = "find_elements") =>
        \/ result.kind = "return"
        \/ result.kind = "IndexError" /\ crit.ctrl_index # None
        \/ result.kind = "WindowNotFoundError" /\ crit.found_index # None

\* C5 amended: find_elements ends by returning a list, by a ctrl_index
\* range violation, by a found_index range violation, or, with active_only
\* set, by the failure of the active window query.
C5_RangeOrQueryFailures ==
    (pc = "done" /\ fn = "find_elements") =>
        \/ result.kind = "return"
        \/ /\ result.kind = "IndexError"
           /\ crit.handle = None /\ ~crit.top_level_only
           /\ crit.ctrl_index # None
           /\ ~InRange(DescendantList, crit.ctrl_index[1])
        \/ /\ result.kind = "WindowNotFoundError"
           /\ ~ShortCircuited
           /\ crit.found_index # None
           /\ crit.found_index[1] >= 0
        \/ /\ result.kind = "WinError"
           /\ ~ShortCircuited
           /\ crit.active_only /\ ~gui.ret

C5_Witness ==
    /\ pc = "done" /\ fn = "find_elements"
    /\ result.kind = "WinError"
    /\ crit.active_only /\ ~gui.ret
    /\ crit.found_index # None

\* C6 as stated: in descendant mode with ctrl_index and no handle, the
\* pipeline returns the element at position ctrl_index of the unfiltered
\* descendant list when ctrl_index is one of its positions 0..n-1, and
\* raises IndexError otherwise; the index never selects another element.
C6_CtrlIndexExact ==
    (PipelineDone /\ crit.handle = None /\ ~crit.top_level_only
       /\ crit.ctrl_index # None) =>
        IF crit.ctrl_index[1] >= 0 /\ crit.ctrl_index[1] < Len(DescendantList)
        THEN result.kind = "return"
             /\ result.elems = <<DescendantList[crit.ctrl_index[1] + 1]>>
        ELSE result.kind = "IndexError"

\* C6 amended: the same for ctrl_index >= 0; a negative ctrl_index from -n
\* to -1 selects the element at position n + ctrl_index, and one below -n
\* raises IndexError.  No other criterion is applied, and the failure is
\* an IndexError, not WindowNotFoundError.
C6_CtrlIndexFromEitherEnd ==
    (PipelineDone /\ crit.handle = None /\ ~crit.top_level_only
       /\ crit.ctrl_index # None) =>
        LET i == crit.ctrl_index[1]
            n == Len(DescendantList)
        IN  IF i >= 0 /\ i < n
            THEN result.kind = "return" /\ result.elems = <<DescendantList[i + 1]>>
            ELSE IF i < 0 /\ i + n >= 0
            THEN result.kind = "return"
                 /\ result.elems = <<DescendantList[n + i + 1]>>
            ELSE result.kind = "IndexError"

C6_Witness ==
    /\ PipelineDone /\ crit.handle = None /\ ~crit.top_level_only
    /\ crit.ctrl_index = Some(-1)
    /\ crit.title # None
    /\ result.kind = "return"
    /\ result.elems = <<DescendantList[Len(DescendantList)]>>
    /\ WindowTextOf(result.elems[1]) # crit.title

\* C7: with title given, title_re has no effect: the outcome is the
\* outcome of the same call without title_re; and with title_re alone, no
\* returned element has an undefined text and no failure comes of one.
C7_TitleOverTitleRe ==
    PipelineDone =>
        /\ crit.title # None => result = Rerun([crit EXCEPT !.title_re = None])
        /\ (crit.title = None /\ crit.title_re # None /\ ~ShortCircuited) =>
               /\ result.kind \in {"return", "WindowNotFoundError", "WinError"}
               /\ \A k \in 1..Len(result.elems) :
                      WindowTextOf(result.elems[k]) # None

C7_Witness ==
    /\ PipelineDone /\ ~ShortCircuited
    /\ crit.title # None /\ crit.title_re # None
    /\ result.kind = "return"
    /\ Len(result.elems) >= 1
    /\ ~TitleMatch(crit.title_re[1], result.elems[1])

\* C8: the early stop on an empty population changes nothing: the outcome
\* of the pipeline is the outcome of steps 3 to 10 applied to the
\* population left by the control_id and active_only steps.
C8_EarlyStopIsOptimization ==
    (PipelineDone /\ ~Acquired.done) => result = Steps3To10(Acquired.elements)

\* C9 as stated: with class_name and class_name_re both given, the outcome
\* is the outcome of the same call with class_name alone.
C9_ClassNameOverClassNameRe ==
    (PipelineDone /\ crit.class_name # None) =>
        result = Rerun([crit EXCEPT !.class_name_re = None])

\* C9 amended: step 3 applies class_name as an exact match when it is given
\* and class_name_re, anchored at the start of the class name, when it is
\* given: every returned element satisfies each of the two that is given.
C9_ClassNameAndClassNameRe ==
    (PipelineDone /\ ~ShortCircuited /\ result.kind = "return") =>
        \A k \in 1..Len(result.elems) :
            /\ crit.class_name # None =>
                   ClassNameOf(result.elems[k]) = crit.class_name[1]
            /\ crit.class_name_re # None =>
                   /\ Len(crit.class_name_re[1].lit) <= Len(ClassNameOf(result.elems[k]))
                   /\ \A j \in 1..Len(crit.class_name_re[1].lit) :
                          ClassNameOf(result.elems[k])[j] = crit.class_name_re[1].lit[j]
                   /\ crit.class_name_re[1].end =>
                          ClassNameOf(result.elems[k]) = crit.class_name_re[1].lit

C9_Witness ==
    /\ PipelineDone /\ ~ShortCircuited
    /\ crit.class_name # None /\ crit.class_name_re # None
    /\ result.kind = "return"
    /\ Len(result.elems) >= 1

====
